---------------------------- MODULE Spec2Model ----------------------------
(***************************************************************************)
(* Model-path conventions of tfx.utils.model_paths:                        *)
(*   tf_estimator_exporter_flavor   {export_path}/export/{name}/{ts}       *)
(*   tfma_eval_saved_model_flavor   {export_dir_base}/{ts}                 *)
(*                                                                         *)
(* A Python str is a sequence of characters; a character is a one-token    *)
(* string.  "LF" is the line feed, "U0663" is ARABIC-INDIC DIGIT THREE     *)
(* (Unicode category Nd), "U00B2" is SUPERSCRIPT TWO (category No,         *)
(* Numeric_Type=Digit).                                                    *)
(***************************************************************************)
EXTENDS Integers, Sequences, FiniteSets, TLC

VARIABLES dirs, files, call

vars == <<dirs, files, call>>

-----------------------------------------------------------------------------
(* Bounds                                                                  *)

\* Number of pieces concatenated into a string handed to parse_model_path.
MaxPieces == 5

\* Number of entries created below the base directory.
MaxEntries == 4

-----------------------------------------------------------------------------
(* Characters and the Python built-ins the code uses                       *)

SEP == "/"

LF == "LF"

AsciiDigits == {"0", "1", "2", "3", "4", "5", "6", "7", "8", "9"}

DigitChars == <<"0", "1", "2", "3", "4", "5", "6", "7", "8", "9">>

\* Characters matched by \d in a str pattern: Unicode category Nd.
IsDecimalChar(c) == c \in AsciiDigits \cup {"U0663"}

\* Characters for which str.isdigit() is true: Nd and Numeric_Type=Digit.
IsDigitChar(c) == IsDecimalChar(c) \/ c = "U00B2"

DigitValue(c) ==
  IF c = "U0663" THEN 3
  ELSE CHOOSE v \in 0..9 : DigitChars[v + 1] = c

\* str.isdigit(): every character is a digit and there is at least one.
isdigit(s) == Len(s) > 0 /\ \A i \in 1..Len(s) : IsDigitChar(s[i])

\* str(timestamp) of a non-negative int: decimal, no padding, no sign.
RECURSIVE str(_)
str(n) ==
  IF n < 10 THEN <<DigitChars[n + 1]>>
  ELSE str(n \div 10) \o <<DigitChars[(n % 10) + 1]>>

\* int(text) of a text of decimal characters.
RECURSIVE int(_)
int(s) ==
  IF Len(s) = 0 THEN 0
  ELSE 10 * int(SubSeq(s, 1, Len(s) - 1)) + DigitValue(s[Len(s)])

startswith_sep(s) == Len(s) > 0 /\ s[1] = SEP

endswith_sep(s) == Len(s) > 0 /\ s[Len(s)] = SEP

\* A join that forgets the separator between two components.
RECURSIVE os_path_join_nosep(_, _)
os_path_join_nosep(a, p) ==
  IF Len(p) = 0 THEN a
  ELSE os_path_join_nosep(IF startswith_sep(Head(p)) THEN Head(p) ELSE a \o Head(p),
                          Tail(p))

\* posixpath.join(a, *p)
RECURSIVE os_path_join(_, _)
os_path_join(a, p) ==
  IF Len(p) = 0 THEN a
  ELSE LET b == Head(p)
           path == IF startswith_sep(b) THEN b
                   ELSE IF Len(a) = 0 \/ endswith_sep(a) THEN a \o b
                   ELSE a \o <<SEP>> \o b
       IN os_path_join(path, Tail(p))

Ok(v) == [status |-> "ok", val |-> v]

Raise(e) == [status |-> e, val |-> <<>>]

-----------------------------------------------------------------------------
(* tf_estimator_exporter_flavor: make_model_path, parse_model_path         *)

_EXPORT_SUB_DIR_NAME == <<"e", "x", "p", "o", "r", "t">>

ExportLiteral == <<SEP>> \o _EXPORT_SUB_DIR_NAME \o <<SEP>>

\* `$` without re.MULTILINE: the end of the string, or just before a line
\* feed that is the last character of the string.
DollarAt(s, pos) ==
  \/ pos = Len(s)
  \/ pos = Len(s) - 1 /\ s[Len(s)] = LF

\* `.` without re.DOTALL matches any character but the line feed.
DotStar(s, a) == \A i \in 1..a : s[i] # LF

AllDecimal(s, from, to) ==
  /\ from <= to
  /\ \A i \in from..to : IsDecimalChar(s[i])

\* The ways ^(.*)/export/([^/]+)/(\d+)$ matches s, as the lengths
\* <<a, n, d>> of the three groups.
SegMatches(s) ==
  LET L == Len(s)
      lit == Len(ExportLiteral)
      \* where the literal /export/ can stand
      starts == { a \in 0..(L - lit) : SubSeq(s, a + 1, a + lit) = ExportLiteral }
  IN { m \in UNION { { <<a, n, L - e - a - lit - n - 1>> :
                         n \in 1..(L - a - lit - 2), e \in {0, 1} } :
                     a \in starts } :
         LET a == m[1]
             n == m[2]
             d == m[3]
         IN /\ d >= 1
            /\ s[a + lit + n + 1] = SEP
            /\ DollarAt(s, a + lit + n + 1 + d)
            /\ \A i \in (a + lit + 1)..(a + lit + n) : s[i] # SEP
            /\ AllDecimal(s, a + lit + n + 2, a + lit + n + 1 + d)
            /\ DotStar(s, a) }

\* The match the backtracking engine reports: each greedy group as long as
\* possible, the leftmost group first.
GreedyFirst(ms) ==
  CHOOSE m \in ms : \A o \in ms :
    \/ m[1] > o[1]
    \/ m[1] = o[1] /\ m[2] > o[2]
    \/ m[1] = o[1] /\ m[2] = o[2] /\ m[3] >= o[3]

SegMakeModelPath(export_path, exporter_name, timestamp) ==
  os_path_join(export_path,
               <<_EXPORT_SUB_DIR_NAME, exporter_name, str(timestamp)>>)

SegParseModelPath(model_path) ==
  LET ms == SegMatches(model_path)
  IN IF ms = {} THEN Raise("ValueError")
     ELSE LET m == GreedyFirst(ms)
              lit == Len(ExportLiteral)
          IN Ok(<<SubSeq(model_path, 1, m[1]),
                  SubSeq(model_path, m[1] + lit + 1, m[1] + lit + m[2]),
                  int(SubSeq(model_path, m[1] + lit + m[2] + 2,
                             m[1] + lit + m[2] + 1 + m[3]))>>)

-----------------------------------------------------------------------------
(* tfma_eval_saved_model_flavor: make_model_path, parse_model_path         *)

\* The ways ^(.*)/(\d+)$ matches s, as the lengths <<a, d>> of the groups.
FlatMatches(s) ==
  LET L == Len(s)
  IN { m \in { <<a, L - e - a - 1>> : a \in 0..L, e \in {0, 1} } :
         LET a == m[1]
             d == m[2]
         IN /\ d >= 1
            /\ DotStar(s, a)
            /\ s[a + 1] = SEP
            /\ AllDecimal(s, a + 2, a + 1 + d)
            /\ DollarAt(s, a + 1 + d) }

GreedyFirstFlat(ms) ==
  CHOOSE m \in ms : \A o \in ms :
    \/ m[1] > o[1]
    \/ m[1] = o[1] /\ m[2] >= o[2]

FlatMakeModelPath(export_dir_base, timestamp) ==
  os_path_join(export_dir_base, <<str(timestamp)>>)

\* A parse whose base group swallows the separator before the timestamp.
FlatParseModelPath_keepsep(model_path) ==
  LET ms == FlatMatches(model_path)
  IN IF ms = {} THEN Raise("ValueError")
     ELSE LET m == GreedyFirstFlat(ms)
          IN Ok(<<SubSeq(model_path, 1, m[1] + 1),
                  int(SubSeq(model_path, m[1] + 2, m[1] + 1 + m[2]))>>)

FlatParseModelPath(model_path) ==
  LET ms == FlatMatches(model_path)
  IN IF ms = {} THEN Raise("ValueError")
     ELSE LET m == GreedyFirstFlat(ms)
          IN Ok(<<SubSeq(model_path, 1, m[1]),
                  int(SubSeq(model_path, m[1] + 2, m[1] + 1 + m[2]))>>)

-----------------------------------------------------------------------------
(* The Directory Lister (tf.io.gfile) over the tree <<dirs, files>>.  A     *)
(* node is the sequence of the names on the way to it.                     *)

FirstSep(s) ==
  IF \E i \in 1..Len(s) : s[i] = SEP
  THEN CHOOSE i \in 1..Len(s) : s[i] = SEP /\ \A j \in 1..(i - 1) : s[j] # SEP
  ELSE 0

\* The node a path string denotes: its non-empty "/"-separated components.
RECURSIVE Resolve(_)
Resolve(s) ==
  IF Len(s) = 0 THEN <<>>
  ELSE LET i == FirstSep(s)
       IN IF i = 0 THEN <<s>>
          ELSE (IF i = 1 THEN <<>> ELSE <<SubSeq(s, 1, i - 1)>>)
                 \o Resolve(SubSeq(s, i + 1, Len(s)))

BaseName == <<"b">>

\* The temporary directory the tests export into.
BaseNode == <<BaseName>>

ExporterNames == { <<"n">>, <<"m">> }

StampNames == { <<"5">>, <<"0", "7">>, <<"U00B2">>, <<"n">> }

FlatStampNames == StampNames \cup { <<"U0663">> }

\* The entries that may be created below the base directory.
CandidateNodes ==
  { BaseNode \o <<_EXPORT_SUB_DIR_NAME>> }
    \cup { BaseNode \o <<_EXPORT_SUB_DIR_NAME, e>> : e \in ExporterNames }
    \cup { BaseNode \o <<_EXPORT_SUB_DIR_NAME, e, t>> :
             e \in ExporterNames, t \in StampNames }
    \cup { BaseNode \o <<t>> : t \in FlatStampNames }

\* The listing order is the lister's choice: one fixed order or its reverse.
NameOrder ==
  << <<"0", "7">>, <<"5">>, _EXPORT_SUB_DIR_NAME, <<"m">>, <<"n">>,
     <<"U00B2">>, <<"U0663">> >>

ListingOrders == {"fwd", "rev"}

Reverse(q) == [i \in 1..Len(q) |-> q[Len(q) + 1 - i]]

isdir(path) == Resolve(path) \in dirs

\* tf.io.gfile.listdir: the names of the entries of a directory; raises
\* NotFoundError when the path is not a directory.
listdir(path, order) ==
  LET node == Resolve(path)
      present(n) == (node \o <<n>>) \in (dirs \cup files)
      names == SelectSeq(NameOrder, present)
  IN IF node \notin dirs THEN Raise("NotFoundError")
     ELSE Ok(IF order = "rev" THEN Reverse(names) ELSE names)

-----------------------------------------------------------------------------
(* tf_estimator_exporter_flavor: lookup_model_paths, lookup_only_model_path *)

\* The inner loop: the model paths below one model_sub_dir.
SegModelsIn(model_sub_dir, order) ==
  LET ls == listdir(model_sub_dir, order)
      keep(timestamp) ==
        /\ isdigit(timestamp)
        /\ isdir(os_path_join(model_sub_dir, <<timestamp>>))
      kept == SelectSeq(ls.val, keep)
  IN IF ls.status # "ok" THEN ls
     ELSE Ok([i \in 1..Len(kept) |-> os_path_join(model_sub_dir, <<kept[i]>>)])

\* The outer loop over the names listed below export_sub_dir.
RECURSIVE SegScan(_, _, _)
SegScan(export_sub_dir, exporter_names, order) ==
  IF Len(exporter_names) = 0 THEN Ok(<<>>)
  ELSE LET model_sub_dir == os_path_join(export_sub_dir, <<Head(exporter_names)>>)
           here == IF ~isdir(model_sub_dir) THEN Ok(<<>>)
                   ELSE SegModelsIn(model_sub_dir, order)
           rest == SegScan(export_sub_dir, Tail(exporter_names), order)
       IN IF here.status # "ok" THEN here
          ELSE IF rest.status # "ok" THEN rest
          ELSE Ok(here.val \o rest.val)

SegLookupModelPaths(export_path, order) ==
  LET export_sub_dir == os_path_join(export_path, <<_EXPORT_SUB_DIR_NAME>>)
      ls == listdir(export_sub_dir, order)
  IN IF ls.status # "ok" THEN ls
     ELSE SegScan(export_sub_dir, ls.val, order)

\* A lookup that settles several models by returning the first one found.
SegLookupOnlyModelPath_first(export_path, order) ==
  LET models_found == SegLookupModelPaths(export_path, order)
  IN IF models_found.status # "ok" THEN models_found
     ELSE IF Len(models_found.val) = 0 THEN Raise("NotFoundError")
     ELSE Ok(models_found.val[1])

SegLookupOnlyModelPath(export_path, order) ==
  LET models_found == SegLookupModelPaths(export_path, order)
  IN IF models_found.status # "ok" THEN models_found
     ELSE IF Len(models_found.val) = 0 THEN Raise("NotFoundError")
     ELSE IF Len(models_found.val) # 1 THEN Raise("AssertionError")
     ELSE Ok(models_found.val[1])

-----------------------------------------------------------------------------
(* tfma_eval_saved_model_flavor: lookup_model_paths, lookup_only_model_path *)

FlatLookupModelPaths(export_dir_base, order) ==
  LET ls == listdir(export_dir_base, order)
      keep(timestamp) ==
        /\ isdigit(timestamp)
        /\ isdir(os_path_join(export_dir_base, <<timestamp>>))
      kept == SelectSeq(ls.val, keep)
  IN IF ls.status # "ok" THEN ls
     ELSE Ok([i \in 1..Len(kept) |-> os_path_join(export_dir_base, <<kept[i]>>)])

FlatLookupOnlyModelPath(export_dir_base, order) ==
  LET models_found == FlatLookupModelPaths(export_dir_base, order)
  IN IF models_found.status # "ok" THEN models_found
     ELSE IF Len(models_found.val) = 0 THEN Raise("NotFoundError")
     ELSE IF Len(models_found.val) # 1 THEN Raise("AssertionError")
     ELSE Ok(models_found.val[1])

\* `model_path, exporter_name, timestamp = item`: unpacking an item into
\* three targets; a str unpacks into its characters when it has three.
Unpack3(item) ==
  IF Len(item) = 3 THEN Ok(item) ELSE Raise("ValueError")

-----------------------------------------------------------------------------
(* State: the directory tree the Directory Lister serves, and the last     *)
(* call made with its result                                               *)

NoCall ==
  [op |-> "none", arg |-> <<>>, ids |-> <<>>, res |-> Ok(<<>>), order |-> "none"]

Init ==
  /\ dirs = {BaseNode}
  /\ files = {}
  /\ call = NoCall

-----------------------------------------------------------------------------
(* Calls of make_model_path and parse_model_path                           *)

BasePathInputs ==
  { <<"b">>, <<"b", "/">>, <<"/">>, <<"b", LF, "b">>, <<>>,
    <<"b">> \o ExportLiteral \o <<"n", "/", "5">> }

ExporterNameInputs ==
  { <<"n">>, <<"n", LF>>, <<"5">>, _EXPORT_SUB_DIR_NAME, <<>>,
    <<"/", "n">>, <<"n", "/", "n">> }

TimestampInputs == {0, 5, 10, 907}

Pieces ==
  { ExportLiteral, _EXPORT_SUB_DIR_NAME, <<SEP>>, <<"n">>, <<"5">>, <<LF>>,
    <<"U0663">> }

RECURSIVE Concat(_)
Concat(ps) == IF Len(ps) = 0 THEN <<>> ELSE Head(ps) \o Concat(Tail(ps))

PathInputs == { Concat(ps) : ps \in UNION { [1..k -> Pieces] : k \in 0..MaxPieces } }

SegMake(export_path, exporter_name, timestamp) ==
  /\ call = NoCall
  /\ call' = [op |-> "seg_make",
              arg |-> <<export_path, exporter_name, timestamp>>,
              ids |-> <<>>,
              res |-> Ok(SegMakeModelPath(export_path, exporter_name, timestamp)),
              order |-> "none"]
  /\ UNCHANGED <<dirs, files>>

\* parse_model_path applied to the path make_model_path has just returned.
SegParseMade ==
  /\ call.op = "seg_make"
  /\ call' = [op |-> "seg_parse", arg |-> call.res.val, ids |-> call.arg,
              res |-> SegParseModelPath(call.res.val), order |-> "none"]
  /\ UNCHANGED <<dirs, files>>

SegParse(model_path) ==
  /\ call = NoCall
  /\ call' = [op |-> "seg_parse", arg |-> model_path, ids |-> <<>>,
              res |-> SegParseModelPath(model_path), order |-> "none"]
  /\ UNCHANGED <<dirs, files>>

FlatMake(export_dir_base, timestamp) ==
  /\ call = NoCall
  /\ call' = [op |-> "flat_make", arg |-> <<export_dir_base, timestamp>>,
              ids |-> <<>>,
              res |-> Ok(FlatMakeModelPath(export_dir_base, timestamp)),
              order |-> "none"]
  /\ UNCHANGED <<dirs, files>>

FlatParseMade ==
  /\ call.op = "flat_make"
  /\ call' = [op |-> "flat_parse", arg |-> call.res.val, ids |-> call.arg,
              res |-> FlatParseModelPath(call.res.val), order |-> "none"]
  /\ UNCHANGED <<dirs, files>>

FlatParse(model_path) ==
  /\ call = NoCall
  /\ call' = [op |-> "flat_parse", arg |-> model_path, ids |-> <<>>,
              res |-> FlatParseModelPath(model_path), order |-> "none"]
  /\ UNCHANGED <<dirs, files>>

\* The caller has consumed the result; the next call starts afresh.
Return ==
  /\ call # NoCall
  /\ call' = NoCall
  /\ UNCHANGED <<dirs, files>>

\* A call starts only when none is in progress; the guard stands before the
\* choice of the input.
NextPath ==
  \/ /\ call = NoCall
     /\ \E s \in PathInputs : SegParse(s)
  \/ /\ call = NoCall
     /\ \E s \in PathInputs : FlatParse(s)
  \/ /\ call = NoCall
     /\ \E b \in BasePathInputs, n \in ExporterNameInputs, t \in TimestampInputs :
          SegMake(b, n, t)
  \/ SegParseMade
  \/ /\ call = NoCall
     /\ \E b \in BasePathInputs, t \in TimestampInputs : FlatMake(b, t)
  \/ FlatParseMade
  \/ Return

SpecPath == Init /\ [][NextPath]_vars

-----------------------------------------------------------------------------
(* The directory tree changes between calls; lookups read it               *)

Prefixes(node) == { SubSeq(node, 1, k) : k \in 1..Len(node) }

Entries == (dirs \cup files) \ {BaseNode}

\* tf.io.gfile.makedirs: the directory and every missing parent.
Makedirs(node) ==
  /\ call = NoCall
  /\ node \notin dirs
  /\ Prefixes(node) \cap files = {}
  /\ Cardinality(Entries \cup Prefixes(node)) <= MaxEntries + 1
  /\ dirs' = dirs \cup Prefixes(node)
  /\ UNCHANGED <<files, call>>

\* A leaf object (not a directory) written into an existing directory.
CreateFile(node) ==
  /\ call = NoCall
  /\ node \notin dirs \cup files
  /\ SubSeq(node, 1, Len(node) - 1) \in dirs
  /\ Cardinality(Entries) < MaxEntries
  /\ files' = files \cup {node}
  /\ UNCHANGED <<dirs, call>>

LookupBases == { BaseName, BaseName \o <<SEP>> }

SegLookup(export_path, order) ==
  /\ call = NoCall
  /\ call' = [op |-> "seg_lookup", arg |-> export_path, ids |-> <<>>,
              res |-> SegLookupModelPaths(export_path, order), order |-> order]
  /\ UNCHANGED <<dirs, files>>

SegLookupOnly(export_path, order) ==
  /\ call = NoCall
  /\ call' = [op |-> "seg_only", arg |-> export_path, ids |-> <<>>,
              res |-> SegLookupOnlyModelPath(export_path, order), order |-> order]
  /\ UNCHANGED <<dirs, files>>

FlatLookup(export_dir_base, order) ==
  /\ call = NoCall
  /\ call' = [op |-> "flat_lookup", arg |-> export_dir_base, ids |-> <<>>,
              res |-> FlatLookupModelPaths(export_dir_base, order), order |-> order]
  /\ UNCHANGED <<dirs, files>>

FlatLookupOnly(export_dir_base, order) ==
  /\ call = NoCall
  /\ call' = [op |-> "flat_only", arg |-> export_dir_base, ids |-> <<>>,
              res |-> FlatLookupOnlyModelPath(export_dir_base, order), order |-> order]
  /\ UNCHANGED <<dirs, files>>

Next ==
  \/ \E node \in CandidateNodes : Makedirs(node)
  \/ \E node \in CandidateNodes : CreateFile(node)
  \/ \E b \in LookupBases, o \in ListingOrders : SegLookup(b, o)
  \/ \E b \in LookupBases, o \in ListingOrders : SegLookupOnly(b, o)
  \/ \E b \in LookupBases, o \in ListingOrders : FlatLookup(b, o)
  \/ \E b \in LookupBases, o \in ListingOrders : FlatLookupOnly(b, o)
  \/ Return

Spec == Init /\ [][Next]_vars

-----------------------------------------------------------------------------
(* Properties of make_model_path and parse_model_path (under SpecPath)     *)

HasChar(s, c) == \E i \in 1..Len(s) : s[i] = c

\* The identifiers the round-trip law speaks of: a non-empty base, a
\* non-empty name without a separator, a non-negative timestamp.
ValidSegIds(ids) ==
  /\ Len(ids[1]) > 0
  /\ Len(ids[2]) > 0
  /\ ~HasChar(ids[2], SEP)
  /\ ids[3] >= 0

ValidFlatIds(ids) ==
  /\ Len(ids[1]) > 0
  /\ ids[2] >= 0

SegRoundTripped ==
  /\ call.op = "seg_parse"
  /\ call.ids # <<>>
  /\ ValidSegIds(call.ids)

FlatRoundTripped ==
  /\ call.op = "flat_parse"
  /\ call.ids # <<>>
  /\ ValidFlatIds(call.ids)

\* C1 as stated: parsing the path made from any valid (base_path,
\* component_name, timestamp) succeeds and returns exactly those three, the
\* base_path character for character.
C1_Original == SegRoundTripped => call.res = Ok(call.ids)

\* C1 amended: the Segmented round trip returns exactly (base_path,
\* component_name, timestamp) for every valid triple whose base_path does
\* not end with "/" and contains no line feed.
C1_RoundTrip ==
  (SegRoundTripped /\ ~endswith_sep(call.ids[1]) /\ ~HasChar(call.ids[1], LF))
    => call.res = Ok(call.ids)

C1_Witness ==
  /\ SegRoundTripped
  /\ call.ids = <<(<<"b">> \o ExportLiteral \o <<"n", "/", "5">>), <<"n", LF>>, 907>>
  /\ call.res = Ok(call.ids)

\* C2 as stated: parsing the path made from any non-empty export_dir_base
\* and non-negative timestamp succeeds and returns exactly those two, the
\* base character for character.
C2_Original == FlatRoundTripped => call.res = Ok(call.ids)

\* C2 amended: the Flat round trip returns exactly (export_dir_base,
\* timestamp) for every non-empty export_dir_base that does not end with
\* "/" and contains no line feed, and every non-negative timestamp.
C2_RoundTrip ==
  (FlatRoundTripped /\ ~endswith_sep(call.ids[1]) /\ ~HasChar(call.ids[1], LF))
    => call.res = Ok(call.ids)

C2_Witness ==
  /\ FlatRoundTripped
  /\ call.ids = <<(<<"b">> \o ExportLiteral \o <<"n", "/", "5">>), 10>>
  /\ call.res = Ok(call.ids)

\* <base> + "/export/" + <name> + "/" + <digits>, the name one or more
\* non-"/" characters, the digits one or more decimal digits running to the
\* end of the string.
SegShape(s) ==
  \E a \in 0..Len(s), n \in 1..Len(s) :
    LET lit == Len(ExportLiteral)
        d == Len(s) - a - lit - n - 1
    IN /\ d >= 1
       /\ SubSeq(s, a + 1, a + lit) = ExportLiteral
       /\ \A i \in (a + lit + 1)..(a + lit + n) : s[i] # SEP
       /\ s[a + lit + n + 1] = SEP
       /\ \A i \in (a + lit + n + 2)..Len(s) : IsDecimalChar(s[i])

\* C4: Segmented parse_model_path accepts a string if and only if the whole
\* string is <base>/export/<name>/<digits> with the digits running to the
\* end of the string; every other string fails with ValueError.
C4_Original ==
  call.op = "seg_parse" =>
    /\ call.res.status \in {"ok", "ValueError"}
    /\ call.res.status = "ok" <=> SegShape(call.arg)

\* Position of the last "/" of s, 0 when there is none.
LastSep(s) ==
  IF HasChar(s, SEP)
  THEN CHOOSE i \in 1..Len(s) : s[i] = SEP /\ \A j \in (i + 1)..Len(s) : s[j] # SEP
  ELSE 0

\* A "/" followed by one or more ASCII digits 0-9 up to the end of the string.
FlatShape(s) ==
  /\ LastSep(s) > 0
  /\ LastSep(s) < Len(s)
  /\ \A i \in (LastSep(s) + 1)..Len(s) : s[i] \in AsciiDigits

\* C9: Flat parse_model_path accepts a string if and only if it contains a
\* "/" and everything after the last "/" is one or more ASCII digits up to
\* the end of the string; it then returns (the text before that "/", the
\* integer value of the digits); every other string fails with ValueError.
C9_Original ==
  call.op = "flat_parse" =>
    IF FlatShape(call.arg)
    THEN call.res = Ok(<<SubSeq(call.arg, 1, LastSep(call.arg) - 1),
                         int(SubSeq(call.arg, LastSep(call.arg) + 1, Len(call.arg)))>>)
    ELSE call.res = Raise("ValueError")

-----------------------------------------------------------------------------
(* Properties of lookup_model_paths and lookup_only_model_path (under Spec) *)

Range(q) == { q[i] : i \in 1..Len(q) }

AllAscii(name) == Len(name) > 0 /\ \A i \in 1..Len(name) : name[i] \in AsciiDigits

AllDecimalName(name) ==
  Len(name) > 0 /\ \A i \in 1..Len(name) : IsDecimalChar(name[i])

\* What lookup_model_paths of the same convention finds for the same call.
FoundFor(c) ==
  IF c.op = "seg_only" THEN SegLookupModelPaths(c.arg, c.order)
  ELSE FlatLookupModelPaths(c.arg, c.order)

\* C3: lookup_only_model_path is decided by the number of paths
\* lookup_model_paths finds: one path is returned; none is NotFoundError;
\* two or more is the assertion error, and no path is returned.
C3_OnlyOne ==
  call.op \in {"seg_only", "flat_only"} =>
    LET found == FoundFor(call)
    IN /\ (found.status = "ok" /\ Len(found.val) = 1)
            => call.res = Ok(found.val[1])
       /\ (found.status # "ok" \/ Len(found.val) = 0)
            => call.res = Raise("NotFoundError")
       /\ (found.status = "ok" /\ Len(found.val) >= 2)
            => call.res = Raise("AssertionError")

C3_Witness ==
  /\ call.op = "seg_only"
  /\ call.order = "rev"
  /\ Len(SegLookupModelPaths(call.arg, call.order).val) = 2
  /\ call.res.status = "AssertionError"

\* The model directories of the Segmented layout below a base node:
\* <<child, grandchild>> with both directories.
SegModelDirs(base) ==
  { cg \in ExporterNames \X StampNames :
      /\ (base \o <<_EXPORT_SUB_DIR_NAME, cg[1]>>) \in dirs
      /\ (base \o <<_EXPORT_SUB_DIR_NAME, cg[1], cg[2]>>) \in dirs }

\* C5: Segmented lookup_model_paths reports each model as a triple
\* (model_path, exporter_name, timestamp): every item unpacks into three,
\* the path of the model, the name of its directory under export/ and the
\* integer value of its digit-named directory; lookup_only_model_path
\* returns such a triple.
IsModelTriple(item, base) ==
  /\ Unpack3(item).status = "ok"
  /\ \E cg \in SegModelDirs(base) :
       /\ Resolve(Unpack3(item).val[1]) = base \o <<_EXPORT_SUB_DIR_NAME, cg[1], cg[2]>>
       /\ Unpack3(item).val[2] = cg[1]
       /\ Unpack3(item).val[3] = int(cg[2])

C5_Original ==
  /\ (call.op = "seg_lookup" /\ call.res.status = "ok")
       => \A i \in 1..Len(call.res.val) :
            IsModelTriple(call.res.val[i], Resolve(call.arg))
  /\ (call.op = "seg_only" /\ call.res.status = "ok")
       => IsModelTriple(call.res.val, Resolve(call.arg))

\* No conforming model directory exists beneath the base: export/ is absent,
\* or it holds no directory containing a digit-named subdirectory.
NoModelBelow(base) == ~\E cg \in SegModelDirs(base) : isdigit(cg[2])

\* C6: lookup_model_paths raises NotFoundError whenever no model is found
\* under the base, rather than returning an empty list.
C6_Original ==
  (call.op = "seg_lookup" /\ NoModelBelow(Resolve(call.arg)))
    => call.res.status = "NotFoundError"

\* C7: Flat lookup_model_paths returns exactly the paths base/<child> of the
\* immediate children whose name is all ASCII digits 0-9 and which are
\* directories, each exactly once.
C7_Original ==
  (call.op = "flat_lookup" /\ call.res.status = "ok") =>
    /\ { Resolve(call.res.val[i]) : i \in 1..Len(call.res.val) }
         = { Resolve(call.arg) \o <<t>> : t \in
               { u \in FlatStampNames \cup {_EXPORT_SUB_DIR_NAME} :
                   AllAscii(u) /\ (Resolve(call.arg) \o <<u>>) \in dirs } }
    /\ Cardinality(Range(call.res.val)) = Len(call.res.val)

\* C8: Segmented lookup_model_paths returns exactly the paths
\* base/export/<child>/<grandchild> with <child> a directory and
\* <grandchild> an all-decimal-digit name that is a directory; an entry
\* directly under base/export that is not a directory is skipped without
\* being listed, so it never makes the scan fail.
C8_Original ==
  call.op = "seg_lookup" =>
    /\ (Resolve(call.arg) \o <<_EXPORT_SUB_DIR_NAME>>) \in dirs
         => call.res.status = "ok"
    /\ call.res.status = "ok" =>
         { Resolve(call.res.val[i]) : i \in 1..Len(call.res.val) }
           = { Resolve(call.arg) \o <<_EXPORT_SUB_DIR_NAME, cg[1], cg[2]>> :
                 cg \in { m \in SegModelDirs(Resolve(call.arg)) :
                            AllDecimalName(m[2]) } }

\* C10: every path lookup_model_paths returns is accepted by the same
\* convention's parse_model_path, which yields the base passed to the
\* lookup, (Segmented) the child directory's name, and the integer value
\* of the digit-named directory.
C10_Original ==
  /\ (call.op = "seg_lookup" /\ call.res.status = "ok") =>
       \A i \in 1..Len(call.res.val) :
         LET path == call.res.val[i]
             node == Resolve(path)
             parsed == SegParseModelPath(path)
         IN /\ parsed.status = "ok"
            /\ parsed.val[1] = call.arg
            /\ parsed.val[2] = node[Len(node) - 1]
            /\ parsed.val[3] = int(node[Len(node)])
  /\ (call.op = "flat_lookup" /\ call.res.status = "ok") =>
       \A i \in 1..Len(call.res.val) :
         LET path == call.res.val[i]
             node == Resolve(path)
             parsed == FlatParseModelPath(path)
         IN /\ parsed.status = "ok"
            /\ parsed.val[1] = call.arg
            /\ parsed.val[2] = int(node[Len(node)])

=============================================================================
